---- MODULE Spec2Model ----
(***************************************************************************)
(* Model of src/app/page.tsx: the product-image designer page.             *)
(*                                                                         *)
(*   Spec      the page as the user drives it: file selection, parameter   *)
(*             edits, the download button and the asynchronous export      *)
(*             (handleDownload) with its three suspension points.          *)
(*   SpecCall  the same page with handleDownload invoked as a callback     *)
(*             (not through the button, whose disabled attribute hides     *)
(*             the no-image branch).                                       *)
(*   SpecWrap  wrapText applied to bounded texts, one loop iteration per   *)
(*             step.                                                       *)
(*   SpecFit   the image fit of handleDownload applied to bounded image    *)
(*             sizes.                                                      *)
(*                                                                         *)
(* JavaScript strings are sequences of one-character strings.              *)
(***************************************************************************)
EXTENDS Integers, Sequences, FiniteSets, TLC

VARIABLES
    \* ---- the page (React state and refs of Page)
    imageSrc,          \* useState: NoUrl (null) or the object URL of the image
    previousObjectURL, \* useRef: the object URL to revoke at the next selection
    params,            \* useState: the design parameters, one field per hook
    exporting,         \* useState
    downloadError,     \* useState: Null or a message
    urls,              \* the object URLs created so far: their file, and
                       \* whether URL.revokeObjectURL has been called on them
    runs,              \* the handleDownload calls in flight, by slot
    lastExport,        \* what the export that ended most recently met and did
    edits,             \* number of parameter edits made
    \* ---- wrapText under SpecWrap
    wText,        \* the text argument
    wMaxWidth,    \* the maxWidth argument, in half-ems
    wY,           \* the y argument
    wLineHeight,  \* the lineHeight argument
    wIdx,         \* number of words of text.split(' ') the for loop has consumed
    wSt,          \* the locals of wrapText: line, drawY, and the fillText calls made
    wPc,          \* "off" (not under SpecWrap) | "loop" | "done"
    \* ---- the image fit under SpecFit
    fW, fH,       \* baseImage.width, baseImage.height
    fRes,         \* scale, drawWidth, drawHeight, imageX, imageY
    fPc           \* "off" (not under SpecFit) | "args" | "done"

pageVars == <<imageSrc, previousObjectURL, params, exporting, downloadError,
              urls, runs, lastExport, edits>>

wrapVars == <<wText, wMaxWidth, wY, wLineHeight, wIdx, wSt, wPc>>

fitVars == <<fW, fH, fRes, fPc>>

vars == <<pageVars, wrapVars, fitVars>>

-----------------------------------------------------------------------------
(* Bounds of the model *)

MaxLen == 6        \* longest text given to wrapText under SpecWrap
MaxWidthArg == 4   \* largest maxWidth given to wrapText under SpecWrap
MaxFiles == 2      \* files the user selects
MaxEdits == 2      \* parameter edits the user makes
MaxRuns == 2       \* slots for handleDownload calls in flight
DimStep == 100     \* under SpecFit the image sides are multiples of DimStep ...
MaxDimK == 15      \* ... up to MaxDimK * DimStep
LimbBits == 14     \* the model's doubles are numerals in base 2^LimbBits ...
IntLimbs == 1      \* ... with IntLimbs digits before the binary point ...
FracLimbs == 5     \* ... and FracLimbs digits after it

\* Significant bits of a double (the Number type of lines 301-307).
MantissaBits == 53

-----------------------------------------------------------------------------
(* Strings *)

SP == " "
NL == "\n"

\* The characters of the model: a narrow letter, a wide letter, the space
\* and the newline (a textarea accepts it).
Chars == {"a", "w", SP, NL}

IsWhitespace(c) == c \in {SP, NL}

RECURSIVE TextsOfLen(_)
TextsOfLen(n) ==
    IF n = 0 THEN {<<>>}
    ELSE {Append(t, c) : t \in TextsOfLen(n - 1), c \in Chars}

Texts == UNION {TextsOfLen(n) : n \in 0..MaxLen}

\* String.prototype.split(' '): the pieces between single space characters;
\* the empty string gives one empty piece, n spaces give n + 1 pieces.
RECURSIVE SplitFrom(_, _, _)
SplitFrom(text, i, cur) ==
    IF i > Len(text) THEN <<cur>>
    ELSE IF text[i] = SP THEN <<cur>> \o SplitFrom(text, i + 1, <<>>)
    ELSE SplitFrom(text, i + 1, Append(cur, text[i]))

Split(text) == SplitFrom(text, 1, <<>>)

\* Array.prototype.join(' ')
RECURSIVE JoinSp(_)
JoinSp(ws) ==
    IF Len(ws) = 0 THEN <<>>
    ELSE IF Len(ws) = 1 THEN ws[1]
    ELSE ws[1] \o <<SP>> \o JoinSp(Tail(ws))

\* String.prototype.toUpperCase, on the letters a-z.
UpperTable ==
    "a" :> "A" @@ "b" :> "B" @@ "c" :> "C" @@ "d" :> "D" @@ "e" :> "E" @@
    "f" :> "F" @@ "g" :> "G" @@ "h" :> "H" @@ "i" :> "I" @@ "j" :> "J" @@
    "k" :> "K" @@ "l" :> "L" @@ "m" :> "M" @@ "n" :> "N" @@ "o" :> "O" @@
    "p" :> "P" @@ "q" :> "Q" @@ "r" :> "R" @@ "s" :> "S" @@ "t" :> "T" @@
    "u" :> "U" @@ "v" :> "V" @@ "w" :> "W" @@ "x" :> "X" @@ "y" :> "Y" @@
    "z" :> "Z"

ToUpperCase(s) ==
    [i \in 1..Len(s) |-> IF s[i] \in DOMAIN UpperTable THEN UpperTable[s[i]] ELSE s[i]]

\* The text metrics of the model. Widths are counted in half-ems of the
\* current font: m and w (either case) are one em wide, every other
\* character half an em (canvas text rendering draws a newline as a
\* space). A width in pixels is the count times the font size over 2.
CharWidth(c) == IF c \in {"m", "w", "M", "W"} THEN 2 ELSE 1

\* ctx.measureText(s).width, in half-ems
RECURSIVE Measure(_)
Measure(s) == IF Len(s) = 0 THEN 0 ELSE CharWidth(Head(s)) + Measure(Tail(s))

-----------------------------------------------------------------------------
(* wrapText *)

\* The locals on entry: line = '', drawY = y, no fillText call yet.
WrapEntry(y) == [line |-> <<>>, drawY |-> y, calls |-> <<>>]

\* testLine = line ? `${line} ${word}` : word
TestLine(line, word) == IF line # <<>> THEN line \o <<SP>> \o word ELSE word

\* The if of the loop body: metrics.width > maxWidth && line
MustFlush(line, word, maxWidth) ==
    Measure(TestLine(line, word)) > maxWidth /\ line # <<>>

\* Mutant: the flush no longer asks for a non-empty current line.
WrapBodyNoLineGuard(st, word, x, maxWidth, lineHeight) ==
    IF Measure(TestLine(st.line, word)) > maxWidth
    THEN [line |-> word,
          drawY |-> st.drawY + lineHeight,
          calls |-> Append(st.calls, [text |-> st.line, x |-> x, y |-> st.drawY])]
    ELSE [st EXCEPT !.line = TestLine(st.line, word)]

\* Mutant: the comparison is >= instead of >.
WrapBodyOffByOne(st, word, x, maxWidth, lineHeight) ==
    IF Measure(TestLine(st.line, word)) >= maxWidth /\ st.line # <<>>
    THEN [line |-> word,
          drawY |-> st.drawY + lineHeight,
          calls |-> Append(st.calls, [text |-> st.line, x |-> x, y |-> st.drawY])]
    ELSE [st EXCEPT !.line = TestLine(st.line, word)]

\* Mutant: the flush starts the next line empty and loses the word.
WrapBodyDropsWord(st, word, x, maxWidth, lineHeight) ==
    IF MustFlush(st.line, word, maxWidth)
    THEN [line |-> <<>>,
          drawY |-> st.drawY + lineHeight,
          calls |-> Append(st.calls, [text |-> st.line, x |-> x, y |-> st.drawY])]
    ELSE [st EXCEPT !.line = TestLine(st.line, word)]

\* One iteration of `for (const word of words)`.
WrapBody(st, word, x, maxWidth, lineHeight) ==
    IF MustFlush(st.line, word, maxWidth)
    THEN [line |-> word,
          drawY |-> st.drawY + lineHeight,
          calls |-> Append(st.calls, [text |-> st.line, x |-> x, y |-> st.drawY])]
    ELSE [st EXCEPT !.line = TestLine(st.line, word)]

\* After the loop: if (line) { fillText(line); drawY += lineHeight }
WrapTail(st, x, lineHeight) ==
    IF st.line # <<>>
    THEN [line |-> st.line,
          drawY |-> st.drawY + lineHeight,
          calls |-> Append(st.calls, [text |-> st.line, x |-> x, y |-> st.drawY])]
    ELSE st

RECURSIVE WrapLoop(_, _, _, _, _, _)
WrapLoop(st, words, i, x, maxWidth, lineHeight) ==
    IF i > Len(words) THEN st
    ELSE WrapLoop(WrapBody(st, words[i], x, maxWidth, lineHeight),
                  words, i + 1, x, maxWidth, lineHeight)

\* wrapText(ctx, text, x, y, maxWidth, lineHeight): the fillText calls it
\* makes, in order, and the drawY it returns.
WrapText(text, x, y, maxWidth, lineHeight) ==
    LET st == WrapTail(WrapLoop(WrapEntry(y), Split(text), 1, x, maxWidth, lineHeight),
                       x, lineHeight)
    IN [calls |-> st.calls, drawY |-> st.drawY]

-----------------------------------------------------------------------------
(* Numbers: IEEE-754 doubles, as the arithmetic of lines 301-307 uses them. *)
(* A non-negative finite double is held exactly, as a fixed-point numeral   *)
(* in base 2^LimbBits: a sequence of IntLimbs + FracLimbs digits ("limbs"), *)
(* most significant first, with the binary point after the first IntLimbs.  *)
(* Every operation computes the exact result and rounds it to MantissaBits  *)
(* significant bits, to nearest, ties to even.                              *)

LimbBase == 2 ^ LimbBits
NumLimbs == IntLimbs + FracLimbs
NumBits == NumLimbs * LimbBits

FixZero == [i \in 1..NumLimbs |-> 0]

\* The k-limb numeral of the natural n (n < LimbBase^k).
RECURSIVE NatToLimbs(_, _)
NatToLimbs(n, k) ==
    IF k = 0 THEN <<>>
    ELSE Append(NatToLimbs(n \div LimbBase, k - 1), n % LimbBase)

\* The double that holds the natural n exactly.
FixOfNat(n) == NatToLimbs(n, IntLimbs) \o [i \in 1..FracLimbs |-> 0]

\* The first k limbs after the point of r / n, for 0 <= r < n, by long
\* division, and what is left after them: (r * LimbBase^k) mod n.
RECURSIVE FracLimbsOf(_, _, _)
FracLimbsOf(r, n, k) ==
    IF k = 0 THEN <<>>
    ELSE <<(r * LimbBase) \div n>> \o FracLimbsOf((r * LimbBase) % n, n, k - 1)

RECURSIVE FracRem(_, _, _)
FracRem(r, n, k) == IF k = 0 THEN r ELSE FracRem((r * LimbBase) % n, n, k - 1)

\* Number of bits of a limb value (0 for 0).
BitLen(v) == Cardinality({k \in 0..(LimbBits - 1) : 2 ^ k <= v})

\* Bit q of a numeral, q = 1 being the most significant of all its bits.
BitAt(x, q) ==
    (x[((q - 1) \div LimbBits) + 1] \div 2 ^ (LimbBits - 1 - ((q - 1) % LimbBits))) % 2

\* Position of the leading 1 bit, 0 for zero.
LeadingOne(x) ==
    IF x = FixZero THEN 0
    ELSE LET li == CHOOSE i \in 1..NumLimbs :
                      x[i] # 0 /\ \A j \in 1..(i - 1) : x[j] = 0
         IN (li - 1) * LimbBits + (LimbBits - BitLen(x[li])) + 1

\* The numeral with the bits after position q cleared.
ClearAfter(x, q) ==
    LET lc == ((q - 1) \div LimbBits) + 1
        unit == 2 ^ (LimbBits - 1 - ((q - 1) % LimbBits))
    IN [i \in 1..NumLimbs |->
          IF i < lc THEN x[i] ELSE IF i = lc THEN x[i] - (x[i] % unit) ELSE 0]

\* Whether some bit after position q is set.
AnyAfter(x, q) == x # ClearAfter(x, q)

\* The exact sum of two numerals, limb by limb from the right.
RECURSIVE AddCarry(_, _, _)
AddCarry(a, b, i) ==
    IF i > NumLimbs THEN 0 ELSE (a[i] + b[i] + AddCarry(a, b, i + 1)) \div LimbBase

AddExact(a, b) ==
    [i \in 1..NumLimbs |-> (a[i] + b[i] + AddCarry(a, b, i + 1)) % LimbBase]

\* The exact difference a - b, for a >= b.
RECURSIVE SubBorrow(_, _, _)
SubBorrow(a, b, i) ==
    IF i > NumLimbs THEN 0
    ELSE IF a[i] - b[i] - SubBorrow(a, b, i + 1) < 0 THEN 1 ELSE 0

SubExact(a, b) ==
    [i \in 1..NumLimbs |->
        (a[i] - b[i] - SubBorrow(a, b, i + 1) + LimbBase) % LimbBase]

\* The exact product n * x of a natural and a numeral.
RECURSIVE MulCarry(_, _, _)
MulCarry(x, n, i) ==
    IF i > NumLimbs THEN 0 ELSE (x[i] * n + MulCarry(x, n, i + 1)) \div LimbBase

MulExact(x, n) ==
    [i \in 1..NumLimbs |-> (x[i] * n + MulCarry(x, n, i + 1)) % LimbBase]

\* The numeral of one unit at bit position q.
UnitAt(q) ==
    [i \in 1..NumLimbs |->
        IF i = ((q - 1) \div LimbBits) + 1
        THEN 2 ^ (LimbBits - 1 - ((q - 1) % LimbBits)) ELSE 0]

\* 2^-k as a numeral.
PowMinus(k) == UnitAt(IntLimbs * LimbBits + k)

\* Round to nearest, ties to even: x holds the leading bits of the exact
\* value and `sticky` says that something non-zero follows them.
Round(x, sticky) ==
    LET p == LeadingOne(x)
        last == p + MantissaBits - 1
    IN IF p = 0 \/ last >= NumBits THEN x
       ELSE LET guard == BitAt(x, last + 1)
                rest == sticky \/ AnyAfter(x, last + 1)
                up == guard = 1 /\ (rest \/ BitAt(x, last) = 1)
                kept == ClearAfter(x, last)
            IN IF up THEN AddExact(kept, UnitAt(last)) ELSE kept

\* a / n in doubles, for naturals a and n > 0.
FlDiv(a, n) ==
    Round(NatToLimbs(a \div n, IntLimbs) \o FracLimbsOf(a % n, n, FracLimbs),
          FracRem(a % n, n, FracLimbs) # 0)

\* n * x in doubles.
FlMul(n, x) == Round(MulExact(x, n), FALSE)

\* a < b and a <= b on doubles.
FixLess(a, b) ==
    \E i \in 1..NumLimbs : a[i] < b[i] /\ \A j \in 1..(i - 1) : a[j] = b[j]

FixLeq(a, b) == a = b \/ FixLess(a, b)

\* A signed double: its sign and its magnitude.
Signed(neg, mag) == [neg |-> neg /\ mag # FixZero, mag |-> mag]

\* a - b in doubles, for non-negative doubles a and b.
FlSub(a, b) ==
    IF FixLess(a, b) THEN Signed(TRUE, Round(SubExact(b, a), FALSE))
    ELSE Signed(FALSE, Round(SubExact(a, b), FALSE))

\* a + s in doubles, for a non-negative double a and a signed double s.
FlAddSigned(a, s) ==
    IF ~s.neg THEN Signed(FALSE, Round(AddExact(a, s.mag), FALSE))
    ELSE IF FixLess(a, s.mag) THEN Signed(TRUE, Round(SubExact(s.mag, a), FALSE))
    ELSE Signed(FALSE, Round(SubExact(a, s.mag), FALSE))

\* x / 2, exact (the lowest bit of the numerals that are halved is clear).
HalfCarry(x, i) == IF i = 0 THEN 0 ELSE x[i] % 2

HalfExact(x) ==
    [i \in 1..NumLimbs |-> (x[i] \div 2) + HalfCarry(x, i - 1) * (LimbBase \div 2)]

HalfSigned(s) == Signed(s.neg, HalfExact(s.mag))

\* A double that may be Infinity (the quotient by a zero side).
Finite(x) == [inf |-> FALSE, val |-> x]
Infinity == [inf |-> TRUE, val |-> <<>>]

\* Math.min of two such doubles.
MinFl(a, b) ==
    IF a.inf THEN b ELSE IF b.inf THEN a
    ELSE IF FixLess(b.val, a.val) THEN b ELSE a

-----------------------------------------------------------------------------
(* The image fit of handleDownload *)

\* padding, and the two sides of the region left for the image:
\* canvas.width - canvas.width * 0.38 - padding * 2 and
\* canvas.height - padding * 2 (1600 * 0.38 is 608 in doubles).
padding == 140
downloadWidth == 1600
downloadHeight == 1200
availableImageWidth == 712
availableImageHeight == 920

\* The literal 1.2: the double nearest to 6/5.
ScaleCap == FlDiv(6, 5)

\* n / d for the natural sides of an image: Infinity when d is 0.
Ratio(n, d) == IF d = 0 THEN Infinity ELSE Finite(FlDiv(n, d))

\* Mutant: the cap of 1.2 is left out of Math.min.
FitScaleUncapped(w, h) ==
    MinFl(MinFl(Ratio(availableImageWidth, w), Ratio(availableImageHeight, h)),
          Finite(FixOfNat(availableImageWidth))).val

\* scale = Math.min(availableImageWidth / baseImage.width,
\*                  availableImageHeight / baseImage.height, 1.2)
FitScale(w, h) ==
    MinFl(MinFl(Ratio(availableImageWidth, w), Ratio(availableImageHeight, h)),
          Finite(ScaleCap)).val

\* Lines 303-307: scale, drawWidth, drawHeight, imageX, imageY.
Fit(w, h) ==
    LET scale == FitScale(w, h)
        drawWidth == FlMul(w, scale)
        drawHeight == FlMul(h, scale)
    IN [scale |-> scale,
        drawWidth |-> drawWidth,
        drawHeight |-> drawHeight,
        imageX |-> FlSub(FixOfNat(downloadWidth - padding), drawWidth),
        imageY |-> FlAddSigned(FixOfNat(padding),
                       HalfSigned(FlSub(FixOfNat(availableImageHeight), drawHeight)))]

-----------------------------------------------------------------------------
(* The scene catalog. Positions, centres and radii are in hundredths. *)

sceneBackgrounds ==
    [studio |->
        [gradientStops |-> <<[color |-> "#f8fafc", position |-> 0],
                             [color |-> "#e2e8f0", position |-> 45],
                             [color |-> "#eef2ff", position |-> 100]>>,
         overlays |-> <<[x |-> 25, y |-> 25, radius |-> 55,
                         color |-> "rgba(99, 102, 241, 0.18)"]>>],
     neon |->
        [gradientStops |-> <<[color |-> "#0f172a", position |-> 0],
                             [color |-> "#1e293b", position |-> 45],
                             [color |-> "#4c1d95", position |-> 100]>>,
         overlays |-> <<[x |-> 75, y |-> 25, radius |-> 50,
                         color |-> "rgba(16, 185, 129, 0.32)"],
                        [x |-> 20, y |-> 80, radius |-> 65,
                         color |-> "rgba(59, 130, 246, 0.25)"]>>],
     sunset |->
        [gradientStops |-> <<[color |-> "#fef3c7", position |-> 0],
                             [color |-> "#f97316", position |-> 55],
                             [color |-> "#ef4444", position |-> 100]>>,
         overlays |-> <<[x |-> 25, y |-> 25, radius |-> 60,
                         color |-> "rgba(254, 240, 138, 0.4)"]>>],
     slate |->
        [gradientStops |-> <<[color |-> "#1f2937", position |-> 0],
                             [color |-> "#111827", position |-> 100]>>,
         overlays |-> <<[x |-> 20, y |-> 85, radius |-> 65,
                         color |-> "rgba(148, 163, 184, 0.28)"]>>]]

SceneKeys == DOMAIN sceneBackgrounds

-----------------------------------------------------------------------------
(* The drawing of handleDownload (lines 200-318): the calls made on the     *)
(* canvas and its 2D context, in order. Each call is recorded with the      *)
(* layer it paints.                                                         *)

NoStyle ==
    [kind |-> "none", color |-> "", from |-> <<0, 0>>, to |-> <<0, 0>>,
     centre |-> <<0, 0>>, radius |-> 0, stops |-> <<>>]

NoFit ==
    [scale |-> FixZero, drawWidth |-> FixZero, drawHeight |-> FixZero,
     imageX |-> Signed(FALSE, FixZero), imageY |-> Signed(FALSE, FixZero)]

\* A call with every argument at its blank; the operators below fill in
\* the arguments that the call takes.
Op(layer, call) ==
    [layer |-> layer, call |-> call, style |-> NoStyle, rect |-> <<0, 0, 0, 0>>,
     radius |-> 0, text |-> <<>>, x |-> 0, y |-> 0, fit |-> NoFit,
     filter |-> [brightness |-> 0, contrast |-> 0, saturate |-> 0, blur |-> 0]]

Color(c) == [NoStyle EXCEPT !.kind = "color", !.color = c]

FullCanvas == <<0, 0, downloadWidth, downloadHeight>>

Max2(a, b) == IF a >= b THEN a ELSE b

\* ctx.createLinearGradient(0, 0, canvas.width, canvas.height) and its stops
LinearGradient(stops) ==
    [NoStyle EXCEPT !.kind = "linear", !.to = <<downloadWidth, downloadHeight>>,
                    !.stops = stops]

\* ctx.createRadialGradient(w * x, h * y, 0, w * x, h * y, max(w, h) * radius)
RadialGradient(o) ==
    [NoStyle EXCEPT
        !.kind = "radial",
        !.centre = <<(downloadWidth * o.x) \div 100, (downloadHeight * o.y) \div 100>>,
        !.radius = (Max2(downloadWidth, downloadHeight) * o.radius) \div 100,
        !.stops = <<[color |-> o.color, position |-> 0],
                    [color |-> "rgba(255,255,255,0)", position |-> 100]>>]

\* ctx.fillStyle = style; ctx.fillRect(0, 0, canvas.width, canvas.height)
FillCanvas(layer, style) ==
    [Op(layer, "fillRect") EXCEPT !.style = style, !.rect = FullCanvas]

\* drawRoundedRect(ctx, x, y, width, height, radius) and then the call
RoundedRect(layer, call, style, rect, radius) ==
    [Op(layer, call) EXCEPT !.style = style, !.rect = rect, !.radius = radius]

\* ctx.fillText(text, x, y)
FillText(layer, text, x, y) ==
    [Op(layer, "fillText") EXCEPT !.text = text, !.x = x, !.y = y]

\* Lines 208-239: the backdrop.
BackdropOps(p) ==
    IF p.backgroundMode = "solid"
    THEN <<FillCanvas("backdrop", Color(p.solidColor))>>
    ELSE IF p.backgroundMode = "scene"
    THEN LET scene == sceneBackgrounds[p.sceneKey]
         IN <<FillCanvas("backdrop", LinearGradient(scene.gradientStops))>>
            \o [i \in 1..Len(scene.overlays) |->
                   FillCanvas("overlay", RadialGradient(scene.overlays[i]))]
    ELSE <<FillCanvas("backdrop",
              LinearGradient(<<[color |-> p.gradientStart, position |-> 0],
                               [color |-> p.gradientEnd, position |-> 100]>>))>>

\* Lines 241-245: the glass card.
CardOps ==
    <<RoundedRect("card", "fill", Color("rgba(255, 255, 255, 0.18)"),
                  <<80, 80, downloadWidth - 160, downloadHeight - 160>>, 48)>>

\* textColumnWidth = canvas.width * 0.38
textColumnWidth == 608

\* The column width in half-ems of a font of `px` pixels: a text of n
\* half-ems is wider than the column exactly when n exceeds this.
ColumnHalfEms(px) == (textColumnWidth * 2) \div px

\* The pixel width of a text of the given font size.
MeasurePx(s, px) == (Measure(s) * px) \div 2

\* let cursorY = padding + 20
CursorStart == padding + 20

\* Lines 251-271: the badge.
BadgeOps(p) ==
    IF p.badgeText = <<>> THEN <<>>
    ELSE LET rect == <<padding, CursorStart,
                       MeasurePx(ToUpperCase(p.badgeText), 28) + 28 * 2, 58>>
         IN <<RoundedRect("badge", "fill", Color("rgba(79, 70, 229, 0.12)"), rect, 32),
              RoundedRect("badge", "stroke", Color("rgba(79, 70, 229, 0.35)"), rect, 32),
              FillText("badge", ToUpperCase(p.badgeText), padding + 28, CursorStart + 29)>>

CursorAfterBadge(p) ==
    IF p.badgeText = <<>> THEN CursorStart ELSE CursorStart + 58 + 48

\* Lines 273-278: the headline.
HeadlineWrap(p) ==
    WrapText(p.tagline, padding, CursorAfterBadge(p), ColumnHalfEms(78), 84)

HeadlineOps(p) ==
    IF p.tagline = <<>> THEN <<>>
    ELSE LET calls == HeadlineWrap(p).calls
         IN [i \in 1..Len(calls) |->
                FillText("headline", calls[i].text, calls[i].x, calls[i].y)]

\* Mutant: the cursor moves by one headline line, however many were drawn.
CursorAfterHeadlineOneLine(p) ==
    IF p.tagline = <<>> THEN CursorAfterBadge(p) ELSE CursorAfterBadge(p) + 84 + 36

CursorAfterHeadline(p) ==
    IF p.tagline = <<>> THEN CursorAfterBadge(p) ELSE HeadlineWrap(p).drawY + 36

\* Lines 280-284: the description.
DescriptionWrap(p) ==
    WrapText(p.description, padding, CursorAfterHeadline(p), ColumnHalfEms(32), 46)

DescriptionOps(p) ==
    IF p.description = <<>> THEN <<>>
    ELSE LET calls == DescriptionWrap(p).calls
         IN [i \in 1..Len(calls) |->
                FillText("description", calls[i].text, calls[i].x, calls[i].y)]

CursorAfterDescription(p) ==
    IF p.description = <<>> THEN CursorAfterHeadline(p)
    ELSE DescriptionWrap(p).drawY + 40

\* Lines 286-299: the call-to-action button.
CtaOps(p) ==
    IF p.ctaText = <<>> THEN <<>>
    ELSE LET width == MeasurePx(p.ctaText, 32)
             buttonWidth == Max2(width + 80, 260)
         IN <<RoundedRect("cta", "fill", Color("#6366f1"),
                          <<padding, CursorAfterDescription(p), buttonWidth, 76>>, 38),
              FillText("cta", p.ctaText,
                       padding + buttonWidth \div 2 - width \div 2,
                       CursorAfterDescription(p) + 38 + 4)>>

\* Lines 301-316: the fitted, filtered source image.
ImageOps(p, img) ==
    <<[Op("image", "drawImage") EXCEPT
          !.fit = Fit(img.width, img.height),
          !.filter = [brightness |-> p.brightness, contrast |-> p.contrast,
                      saturate |-> p.saturation, blur |-> p.blur]]>>

\* Line 318: canvas.toBlob(resolve, 'image/png', 0.95)
EncodeOps == <<Op("encode", "toBlob")>>

\* Mutant: the image is drawn right after the backdrop, under the card and
\* the copy.
ComposeImageFirst(p, img) ==
    BackdropOps(p) \o ImageOps(p, img) \o CardOps \o BadgeOps(p) \o HeadlineOps(p)
    \o DescriptionOps(p) \o CtaOps(p) \o EncodeOps

\* Lines 208-318: everything drawn between the decode and the encode.
Compose(p, img) ==
    BackdropOps(p) \o CardOps \o BadgeOps(p) \o HeadlineOps(p)
    \o DescriptionOps(p) \o CtaOps(p) \o ImageOps(p, img) \o EncodeOps

-----------------------------------------------------------------------------
(* The preview of the backdrop: the CSS value that backgroundStyle (lines    *)
(* 113-135) and previewBackground (lines 352-371) build, as the list of its  *)
(* comma-separated layers in the order the code joins them.                  *)

\* A CSS layer with every part at its blank.
NoCssLayer ==
    [kind |-> "none", angle |-> 0, color |-> "", at |-> <<0, 0>>, stops |-> <<>>]

\* linear-gradient(<angle>deg, <color> <position>%, ...)
CssLinear(angle, stops) ==
    [NoCssLayer EXCEPT !.kind = "linear", !.angle = angle, !.stops = stops]

\* radial-gradient(circle at x% y%, color 0%, rgba(255, 255, 255, 0) radius%)
CssRadial(o) ==
    [NoCssLayer EXCEPT
        !.kind = "radial", !.at = <<o.x, o.y>>,
        !.stops = <<[color |-> o.color, position |-> 0],
                    [color |-> "rgba(255, 255, 255, 0)", position |-> o.radius]>>]

\* The scene branch of both: [...overlays, gradient]
SceneCssLayers(p) ==
    LET scene == sceneBackgrounds[p.sceneKey]
    IN [i \in 1..Len(scene.overlays) |-> CssRadial(scene.overlays[i])]
       \o <<CssLinear(135, scene.gradientStops)>>

\* The gradient branch of both: linear-gradient(130deg, start, end); the
\* stops without a position are at 0% and 100%.
GradientCssLayers(p) ==
    <<CssLinear(130, <<[color |-> p.gradientStart, position |-> 0],
                       [color |-> p.gradientEnd, position |-> 100]>>)>>

backgroundStyle(p) ==
    IF p.backgroundMode = "solid"
    THEN <<[NoCssLayer EXCEPT !.kind = "color", !.color = p.solidColor]>>
    ELSE IF p.backgroundMode = "scene" THEN SceneCssLayers(p)
    ELSE GradientCssLayers(p)

previewBackground(p) ==
    IF p.backgroundMode = "solid"
    THEN <<[NoCssLayer EXCEPT !.kind = "color", !.color = p.solidColor]>>
    ELSE IF p.backgroundMode = "scene" THEN SceneCssLayers(p)
    ELSE GradientCssLayers(p)

-----------------------------------------------------------------------------
(* The page: its state after construction *)

NoUrl == 0
Null == "<null>"

DefaultTagline ==
    <<"N", "e", "w", " ", "A", "r", "r", "i", "v", "a", "l">>

DefaultDescription ==
    <<"P", "r", "e", "m", "i", "u", "m", " ", "q", "u", "a", "l", "i", "t",
      "y", " ", "p", "r", "o", "d", "u", "c", "t", " ", "c", "r", "a", "f",
      "t", "e", "d", " ", "f", "o", "r", " ", "e", "v", "e", "r", "y", "d",
      "a", "y", " ", "e", "x", "c", "e", "l", "l", "e", "n", "c", "e", ".">>

DefaultCta == <<"S", "h", "o", "p", " ", "N", "o", "w">>

DefaultBadge == <<"2", "0", "%", " ", "O", "f", "f">>

\* The useState initial values (lines 60-72); the multipliers in hundredths.
DefaultParams ==
    [brightness |-> 112, contrast |-> 108, saturation |-> 118, blur |-> 0,
     backgroundMode |-> "gradient", solidColor |-> "#f8fafc",
     gradientStart |-> "#eef2ff", gradientEnd |-> "#e0f2fe",
     sceneKey |-> "studio", tagline |-> DefaultTagline,
     description |-> DefaultDescription, ctaText |-> DefaultCta,
     badgeText |-> DefaultBadge]

\* What the user types and picks: for each control its initial value and
\* the other values of the model.
LongTagline ==
    <<"W", "o", "n", "d", "e", "r", "f", "u", "l", " ", "n", "e", "w", " ",
      "s", "u", "m", "m", "e", "r", " ", "a", "r", "r", "i", "v", "a", "l",
      "s">>

ParamValues ==
    [brightness |-> {112, 160}, contrast |-> {108, 80}, saturation |-> {118, 180},
     blur |-> {0, 3},
     backgroundMode |-> {"gradient", "solid", "scene"},
     solidColor |-> {"#f8fafc", "#112233"},
     gradientStart |-> {"#eef2ff", "#112233"},
     gradientEnd |-> {"#e0f2fe", "#112233"},
     sceneKey |-> SceneKeys,
     tagline |-> {DefaultTagline, <<>>, <<SP>>, LongTagline},
     description |-> {DefaultDescription, <<>>},
     ctaText |-> {DefaultCta, <<>>},
     badgeText |-> {DefaultBadge, <<>>}]

\* The files the user can select: one that is no image, an image file that
\* does not decode, and images of these natural sizes.
ImageSizes == {<<0, 0>>, <<600, 1200>>}

Files ==
    {[isImage |-> FALSE, decodable |-> FALSE, width |-> 0, height |-> 0],
     [isImage |-> TRUE, decodable |-> FALSE, width |-> 0, height |-> 0]}
    \cup {[isImage |-> TRUE, decodable |-> TRUE, width |-> sz[1], height |-> sz[2]] :
             sz \in ImageSizes}

NoImg == [width |-> 0, height |-> 0]

FreeRun ==
    [pc |-> "free", snap |-> [imageSrc |-> NoUrl, params |-> DefaultParams],
     fetch |-> "none", img |-> NoImg, canvas |-> <<>>, changedBeforeDraw |-> FALSE]

NoLast ==
    [ended |-> FALSE, decoded |-> FALSE, surface |-> FALSE, encoded |-> FALSE,
     clicked |-> FALSE]

InitPage ==
    /\ imageSrc = NoUrl
    /\ previousObjectURL = NoUrl
    /\ params = DefaultParams
    /\ exporting = FALSE
    /\ downloadError = Null
    /\ urls = <<>>
    /\ runs = [i \in 1..MaxRuns |-> FreeRun]
    /\ lastExport = NoLast
    /\ edits = 0

InFlight == {i \in 1..MaxRuns : runs[i].pc # "free"}

-----------------------------------------------------------------------------
(* The page: file selection and the controls *)

\* handleFileChange (lines 87-102): a selection that is no image is ignored;
\* otherwise the previous object URL is revoked and a new one is created.
handleFileChange ==
    \E file \in Files :
        /\ Len(urls) < MaxFiles
        /\ IF ~file.isImage
           THEN UNCHANGED <<urls, previousObjectURL, imageSrc>>
           ELSE /\ urls' = Append([u \in 1..Len(urls) |->
                                      IF u = previousObjectURL
                                      THEN [urls[u] EXCEPT !.revoked = TRUE]
                                      ELSE urls[u]],
                                  [file |-> file, revoked |-> FALSE])
                /\ previousObjectURL' = Len(urls) + 1
                /\ imageSrc' = Len(urls) + 1
        /\ UNCHANGED <<params, exporting, downloadError, runs, lastExport, edits>>
        /\ UNCHANGED <<wrapVars, fitVars>>

\* A control's onChange / onClick: the setter of one parameter. The colour
\* inputs and the theme buttons are rendered only in their background mode.
SetParam(field) ==
    \E v \in ParamValues[field] :
        /\ edits < MaxEdits
        /\ params[field] # v
        /\ params' = [params EXCEPT ![field] = v]
        /\ edits' = edits + 1
        /\ UNCHANGED <<imageSrc, previousObjectURL, exporting, downloadError,
                       urls, runs, lastExport>>
        /\ UNCHANGED <<wrapVars, fitVars>>

setBrightness == SetParam("brightness")
setContrast == SetParam("contrast")
setSaturation == SetParam("saturation")
setBlur == SetParam("blur")
setBackgroundMode == SetParam("backgroundMode")
setSolidColor == params.backgroundMode = "solid" /\ SetParam("solidColor")
setGradientStart == params.backgroundMode = "gradient" /\ SetParam("gradientStart")
setGradientEnd == params.backgroundMode = "gradient" /\ SetParam("gradientEnd")
setSceneKey == params.backgroundMode = "scene" /\ SetParam("sceneKey")
setTagline == SetParam("tagline")
setDescription == SetParam("description")
setCtaText == SetParam("ctaText")
setBadgeText == SetParam("badgeText")

\* handleCopyShare (lines 338-350) as far as it writes the state of the
\* model: its button is disabled without an image; the click itself changes
\* nothing here, the clipboard write settles at any later time, and a
\* rejected write reports.
handleCopyShare ==
    /\ imageSrc # NoUrl
    /\ \/ UNCHANGED downloadError
       \/ downloadError' = "Copy failed. You can still download and share manually."
    /\ UNCHANGED <<imageSrc, previousObjectURL, params, exporting,
                   urls, runs, lastExport, edits>>
    /\ UNCHANGED <<wrapVars, fitVars>>

-----------------------------------------------------------------------------
(* handleDownload (lines 190-336). The code between two awaits runs to      *)
(* completion, so the call is four steps: the entry up to the wait for the  *)
(* fonts, the start of the image load, the drawing up to the start of the   *)
(* encoding, and the download; an exception ends the call in the catch and  *)
(* finally blocks.                                                          *)

\* The download button: disabled={exporting || !imageSrc}
DownloadDisabledIgnoresExporting == imageSrc = NoUrl

DownloadDisabled == exporting \/ imageSrc = NoUrl

\* Mutant: the entry without its `if (!imageSrc)` guard.
EntryWithoutGuard(src) ==
    [started |-> TRUE, downloadError |-> Null, exporting |-> TRUE]

\* Lines 191-196: the entry, up to `try`.
Entry(src) ==
    IF src = NoUrl
    THEN [started |-> FALSE, downloadError |-> "Upload an image first.",
          exporting |-> exporting]
    ELSE [started |-> TRUE, downloadError |-> Null, exporting |-> TRUE]

\* What is thrown: an Error with its message, or the event that img.onerror
\* passes to reject (no Error, no message).
ErrorOf(message) == [isError |-> TRUE, message |-> message]
ErrorEvent == [isError |-> FALSE, message |-> ""]

\* Line 332: error instanceof Error ? error.message : 'Failed to export image.'
CatchMessage(error) ==
    IF error.isError THEN error.message ELSE "Failed to export image."

\* Mutant: the values of the latest render instead of those of the closure.
ClosureReadsLiveState(run) == [imageSrc |-> imageSrc, params |-> params]

\* The values handleDownload reads after its awaits: those its closure
\* captured when the callback was created, that is, at the render whose
\* button was clicked.
Closure(run) == run.snap

\* Mutant: the encoding result is used without the `if (!blob)` check.
AfterEncodeUnchecked(blob) == [thrown |-> FALSE, error |-> ErrorEvent, clicked |-> TRUE]

\* Lines 319-330: a null blob throws; otherwise the link is made and clicked.
AfterEncode(blob) ==
    IF blob = "null"
    THEN [thrown |-> TRUE, error |-> ErrorOf("Unable to export image."),
          clicked |-> FALSE]
    ELSE [thrown |-> FALSE, error |-> ErrorEvent, clicked |-> TRUE]

LowestFree == CHOOSE i \in 1..MaxRuns :
                 runs[i].pc = "free" /\ \A j \in 1..(i - 1) : runs[j].pc # "free"

\* handleDownload is invoked and runs up to `await document.fonts.ready`.
Invoke ==
    LET e == Entry(imageSrc)
    IN /\ e.started => \E i \in 1..MaxRuns : runs[i].pc = "free"
       /\ downloadError' = e.downloadError
       /\ exporting' = e.exporting
       /\ IF e.started
          THEN /\ runs' = [runs EXCEPT ![LowestFree] =
                              [FreeRun EXCEPT
                                  !.pc = "fonts",
                                  !.snap = [imageSrc |-> imageSrc, params |-> params]]]
               /\ lastExport' = NoLast
          ELSE UNCHANGED <<runs, lastExport>>
       /\ UNCHANGED <<imageSrc, previousObjectURL, params, urls, edits>>
       /\ UNCHANGED <<wrapVars, fitVars>>

\* The user clicks the download button.
ClickDownload == ~DownloadDisabled /\ Invoke

\* handleDownload is called directly, one call at a time.
CallDownload == InFlight = {} /\ Invoke

\* Mutant: the catch block without the finally block.
FailsKeepsExporting(i, error, met) ==
    /\ downloadError' = CatchMessage(error)
    /\ exporting' = exporting
    /\ runs' = [runs EXCEPT ![i] = FreeRun]
    /\ lastExport' = [ended |-> TRUE, decoded |-> met.decoded, surface |-> met.surface,
                      encoded |-> FALSE, clicked |-> FALSE]

\* The catch and finally blocks, for the run in slot i.
Fails(i, error, met) ==
    /\ downloadError' = CatchMessage(error)
    /\ exporting' = FALSE
    /\ runs' = [runs EXCEPT ![i] = FreeRun]
    /\ lastExport' = [ended |-> TRUE, decoded |-> met.decoded, surface |-> met.surface,
                      encoded |-> FALSE, clicked |-> FALSE]

\* document.fonts.ready settles; loadImage sets img.src, and the fetch of
\* the object URL fails if the URL is revoked or the file does not decode.
FontsReady(i) ==
    /\ runs[i].pc = "fonts"
    /\ LET url == urls[Closure(runs[i]).imageSrc]
       IN runs' = [runs EXCEPT
                      ![i].pc = "decode",
                      ![i].fetch = IF url.revoked \/ ~url.file.decodable
                                   THEN "error" ELSE "load",
                      ![i].img = [width |-> url.file.width, height |-> url.file.height]]
    /\ UNCHANGED <<imageSrc, previousObjectURL, params, exporting, downloadError,
                   urls, lastExport, edits>>
    /\ UNCHANGED <<wrapVars, fitVars>>

\* img.onerror: loadImage rejects and handleDownload ends in its catch.
ImageError(i) ==
    /\ runs[i].pc = "decode"
    /\ runs[i].fetch = "error"
    /\ Fails(i, ErrorEvent, [decoded |-> FALSE, surface |-> FALSE])
    /\ UNCHANGED <<imageSrc, previousObjectURL, params, urls, edits>>
    /\ UNCHANGED <<wrapVars, fitVars>>

\* img.onload: lines 200-318. getContext('2d') may return null; otherwise
\* everything is drawn and the encoding is started.
ImageLoaded(i) ==
    /\ runs[i].pc = "decode"
    /\ runs[i].fetch = "load"
    /\ \/ /\ Fails(i, ErrorOf("Could not get canvas context."),
                   [decoded |-> TRUE, surface |-> FALSE])
          /\ UNCHANGED <<imageSrc, previousObjectURL, params, urls, edits>>
       \/ /\ runs' = [runs EXCEPT
                         ![i].pc = "encode",
                         ![i].canvas = Compose(Closure(runs[i]).params, runs[i].img),
                         ![i].changedBeforeDraw = (params # runs[i].snap.params)]
          /\ UNCHANGED <<imageSrc, previousObjectURL, params, exporting,
                         downloadError, urls, lastExport, edits>>
    /\ UNCHANGED <<wrapVars, fitVars>>

\* The toBlob callback: lines 319-335.
BlobReady(i) ==
    /\ runs[i].pc = "encode"
    /\ \E blob \in {"png", "null"} :
          LET out == AfterEncode(blob)
          IN /\ downloadError' = IF out.thrown THEN CatchMessage(out.error)
                                 ELSE downloadError
             /\ lastExport' = [ended |-> TRUE, decoded |-> TRUE, surface |-> TRUE,
                               encoded |-> blob # "null", clicked |-> out.clicked]
    /\ exporting' = FALSE
    /\ runs' = [runs EXCEPT ![i] = FreeRun]
    /\ UNCHANGED <<imageSrc, previousObjectURL, params, urls, edits>>
    /\ UNCHANGED <<wrapVars, fitVars>>

-----------------------------------------------------------------------------
(* SpecWrap: wrapText on bounded inputs, one loop iteration per step *)

\* The two call sites of wrapText: the headline (line height 84) at the
\* cursor below the badge, the description (line height 46) further down.
WrapCallSites == {[y |-> 266, lineHeight |-> 84], [y |-> 386, lineHeight |-> 46]}

WrapOff ==
    /\ wText = <<>> /\ wMaxWidth = 0 /\ wY = 0 /\ wLineHeight = 0
    /\ wIdx = 0 /\ wSt = WrapEntry(0) /\ wPc = "off"

FitOff == fW = 0 /\ fH = 0 /\ fRes = NoFit /\ fPc = "off"

InitWrap ==
    /\ InitPage /\ FitOff
    /\ wText \in Texts
    /\ wMaxWidth \in 1..MaxWidthArg
    /\ \E c \in WrapCallSites : wY = c.y /\ wLineHeight = c.lineHeight
    /\ wIdx = 0
    /\ wSt = WrapEntry(wY)
    /\ wPc = "loop"

wWords == Split(wText)

WrapIterate ==
    /\ wPc = "loop"
    /\ wIdx < Len(wWords)
    /\ wSt' = WrapBody(wSt, wWords[wIdx + 1], 140, wMaxWidth, wLineHeight)
    /\ wIdx' = wIdx + 1
    /\ UNCHANGED <<wText, wMaxWidth, wY, wLineHeight, wPc>>
    /\ UNCHANGED <<pageVars, fitVars>>

WrapReturn ==
    /\ wPc = "loop"
    /\ wIdx = Len(wWords)
    /\ wSt' = WrapTail(wSt, 140, wLineHeight)
    /\ wPc' = "done"
    /\ UNCHANGED <<wText, wMaxWidth, wY, wLineHeight, wIdx>>
    /\ UNCHANGED <<pageVars, fitVars>>

NextWrap == WrapIterate \/ WrapReturn

SpecWrap == InitWrap /\ [][NextWrap]_vars

-----------------------------------------------------------------------------
(* SpecFit: the image fit on bounded image sizes *)

DimSet == {DimStep * k : k \in 0..MaxDimK}

InitFit ==
    /\ InitPage /\ WrapOff
    /\ fW \in DimSet /\ fH \in DimSet
    /\ fRes = NoFit
    /\ fPc = "args"

FitCompute ==
    /\ fPc = "args"
    /\ fRes' = Fit(fW, fH)
    /\ fPc' = "done"
    /\ UNCHANGED <<fW, fH>>
    /\ UNCHANGED <<pageVars, wrapVars>>

NextFit == FitCompute

SpecFit == InitFit /\ [][NextFit]_vars

-----------------------------------------------------------------------------
(* Spec and SpecCall: the page *)

Init == InitPage /\ WrapOff /\ FitOff

Controls ==
    \/ setBrightness \/ setContrast \/ setSaturation \/ setBlur
    \/ setBackgroundMode \/ setSolidColor \/ setGradientStart \/ setGradientEnd
    \/ setSceneKey \/ setTagline \/ setDescription \/ setCtaText \/ setBadgeText

Settles ==
    \/ \E i \in 1..MaxRuns : FontsReady(i)
    \/ \E i \in 1..MaxRuns : ImageError(i)
    \/ \E i \in 1..MaxRuns : ImageLoaded(i)
    \/ \E i \in 1..MaxRuns : BlobReady(i)

Next == handleFileChange \/ Controls \/ handleCopyShare \/ ClickDownload \/ Settles

Spec == Init /\ [][Next]_vars

\* The page when every awaited operation of an export settles: the ready
\* promise of the fonts, the load or error event of the image, and the
\* callback of toBlob.
SpecLive == Init /\ [][Next]_vars /\ WF_vars(Settles)

NextCall == handleFileChange \/ Controls \/ handleCopyShare \/ CallDownload \/ Settles

SpecCall == Init /\ [][NextCall]_vars

-----------------------------------------------------------------------------
(* Helpers of the claims *)

\* The texts of the lines wrapText has drawn so far, in order.
LineTexts == [i \in 1..Len(wSt.calls) |-> wSt.calls[i].text]

\* A text of words separated by single spaces: no leading space, no trailing
\* space, no two adjacent spaces (split(' ') yields no empty piece).
SingleSpaced(text) ==
    text = <<>> \/ \A i \in 1..Len(Split(text)) : Split(text)[i] # <<>>

HasSpace(s) == \E i \in 1..Len(s) : s[i] = SP

\* The words of a text split on runs of whitespace (no empty word).
RECURSIVE WsWordsFrom(_, _, _)
WsWordsFrom(text, i, cur) ==
    IF i > Len(text) THEN (IF cur = <<>> THEN <<>> ELSE <<cur>>)
    ELSE IF IsWhitespace(text[i])
         THEN (IF cur = <<>> THEN <<>> ELSE <<cur>>) \o WsWordsFrom(text, i + 1, <<>>)
         ELSE WsWordsFrom(text, i + 1, Append(cur, text[i]))

WsWords(text) == WsWordsFrom(text, 1, <<>>)

\* The words of the drawn lines, in order: each line cut at its spaces.
RECURSIVE LineWords(_)
LineWords(lines) ==
    IF Len(lines) = 0 THEN <<>> ELSE Split(Head(lines)) \o LineWords(Tail(lines))

-----------------------------------------------------------------------------
(* Claims about handleDownload, under SpecCall and Spec *)

\* C1: when handleDownload is invoked with no image loaded it reports
\* "Upload an image first." and does nothing else: no export starts (no
\* font wait, decode, canvas, drawing, encoding or download) and exporting
\* is not set.
C1_NoImageNoWork ==
    [][(CallDownload /\ imageSrc = NoUrl) =>
          /\ downloadError' = "Upload an image first."
          /\ runs' = runs /\ InFlight = {}
          /\ lastExport' = lastExport
          /\ ~exporting'
          /\ urls' = urls]_vars

\* handleDownload has been invoked with no image loaded.
C1_Witness ==
    /\ imageSrc = NoUrl /\ downloadError = "Upload an image first."
    /\ InFlight = {} /\ ~exporting

\* The messages the page can show.
ExportFailureMessages ==
    {"Failed to export image.", "Could not get canvas context.",
     "Unable to export image."}

CopyFailureMessage == "Copy failed. You can still download and share manually."

\* C2: an export that has ended after a failed decode, a missing 2D context
\* or an empty encoding has clicked no download link, and an error message
\* is set.
C2_FailureLeavesNoFile ==
    (lastExport.ended
       /\ ~(lastExport.decoded /\ lastExport.surface /\ lastExport.encoded)) =>
        /\ ~lastExport.clicked
        /\ downloadError \in ExportFailureMessages \cup {CopyFailureMessage}
        /\ downloadError # ""

\* An export has decoded and drawn, its encoding returned nothing, and it
\* has ended with the message of that failure.
C2_Witness ==
    /\ lastExport.ended /\ lastExport.decoded /\ lastExport.surface
    /\ ~lastExport.encoded /\ ~lastExport.clicked
    /\ downloadError = "Unable to export image."
    /\ InFlight = {} /\ ~exporting

\* C3: at most one handleDownload call is in flight, and while one is, the
\* exporting flag is set and the download button is disabled.
C3_OneExportInFlight ==
    /\ Cardinality(InFlight) <= 1
    /\ InFlight # {} => (exporting /\ ~ENABLED ClickDownload)

\* An export is suspended at its encoding with the button disabled, after
\* two parameter edits and with an image selected.
C3_Witness ==
    /\ \E i \in InFlight : runs[i].pc = "encode"
    /\ exporting /\ imageSrc # NoUrl /\ edits = MaxEdits

\* The image a run draws: the natural size of the file behind the object
\* URL of its snapshot.
SnapshotImage(run) ==
    [width |-> urls[run.snap.imageSrc].file.width,
     height |-> urls[run.snap.imageSrc].file.height]

\* C4: what an export has drawn is the composition of the parameters and
\* the image of its own snapshot, whatever the page holds by then and
\* whatever earlier exports did.
C4_DrawsFromSnapshot ==
    \A i \in InFlight :
        /\ runs[i].pc \in {"decode", "encode"} => runs[i].img = SnapshotImage(runs[i])
        /\ runs[i].pc = "encode" =>
              runs[i].canvas = Compose(runs[i].snap.params, SnapshotImage(runs[i]))

\* An export has drawn after the user changed a parameter during its
\* suspension, and the page's parameters would compose another picture.
C4_Witness ==
    \E i \in InFlight :
        /\ runs[i].pc = "encode" /\ runs[i].changedBeforeDraw
        /\ params # runs[i].snap.params
        /\ runs[i].canvas # Compose(params, runs[i].img)

\* The place of a layer in the order of the drawing.
LayerRank(layer) ==
    CASE layer = "backdrop" -> 1 [] layer = "overlay" -> 1
      [] layer = "card" -> 2 [] layer = "badge" -> 3
      [] layer = "headline" -> 4 [] layer = "description" -> 5
      [] layer = "cta" -> 6 [] layer = "image" -> 7
      [] layer = "encode" -> 8

LayerCount(canvas, layer) ==
    Cardinality({k \in 1..Len(canvas) : canvas[k].layer = layer})

\* A text with a character that is not a space.
HasInk(s) == \E k \in 1..Len(s) : s[k] # SP

\* C5: the calls of an export that has drawn are in the order backdrop,
\* card, badge, headline, description, CTA, image, encoding; the backdrop,
\* the card, the image and the encoding are always there, and a copy
\* element is drawn if its text has a visible character and not drawn if
\* its text is empty.
C5_FixedDrawingOrder ==
    \A i \in InFlight :
        runs[i].pc = "encode" =>
            LET c == runs[i].canvas
                p == runs[i].snap.params
            IN /\ \A j, k \in 1..Len(c) :
                      j < k => LayerRank(c[j].layer) <= LayerRank(c[k].layer)
               /\ c[1].layer = "backdrop" /\ c[1].call = "fillRect"
               /\ LayerCount(c, "backdrop") = 1
               /\ LayerCount(c, "card") = 1
               /\ LayerCount(c, "image") = 1
               /\ LayerCount(c, "encode") = 1
               /\ (p.badgeText = <<>>) <=> (LayerCount(c, "badge") = 0)
               /\ (p.ctaText = <<>>) <=> (LayerCount(c, "cta") = 0)
               /\ p.tagline = <<>> => LayerCount(c, "headline") = 0
               /\ HasInk(p.tagline) => LayerCount(c, "headline") > 0
               /\ p.description = <<>> => LayerCount(c, "description") = 0
               /\ HasInk(p.description) => LayerCount(c, "description") > 0

\* An export has drawn a scene backdrop, no badge, a headline of several
\* lines and the image.
C5_Witness ==
    \E i \in InFlight :
        /\ runs[i].pc = "encode"
        /\ runs[i].snap.params.badgeText = <<>>
        /\ LayerCount(runs[i].canvas, "badge") = 0
        /\ LayerCount(runs[i].canvas, "headline") >= 2
        /\ LayerCount(runs[i].canvas, "description") >= 2
        /\ LayerCount(runs[i].canvas, "image") = 1

-----------------------------------------------------------------------------
(* Claims about wrapText, under SpecWrap *)

\* C6 as stated: for every text, the drawn lines joined with single spaces
\* are the text again.
C6_ContentPreservedAnyText ==
    wPc = "done" => JoinSp(LineTexts) = wText

\* C6 (amended): for every text whose words are separated by single spaces
\* (no leading, trailing or repeated space), the drawn lines joined with
\* single spaces are the text again.
C6_ContentPreservedSingleSpaced ==
    (wPc = "done" /\ SingleSpaced(wText)) => JoinSp(LineTexts) = wText

\* A single-spaced text that wrapText has broken into several lines, one
\* of them holding two words.
C6_Witness ==
    /\ wPc = "done" /\ SingleSpaced(wText)
    /\ Len(wSt.calls) >= 2
    /\ \E i \in 1..Len(wSt.calls) : HasSpace(wSt.calls[i].text)
    /\ JoinSp(LineTexts) = wText

\* C7: wrapText never draws an empty line, and for the empty string it
\* draws no line and returns the y it was given.
C7_NoEmptyLine ==
    /\ \A i \in 1..Len(wSt.calls) : wSt.calls[i].text # <<>>
    /\ (wPc = "done" /\ wText = <<>>) => (wSt.calls = <<>> /\ wSt.drawY = wY)

\* wrapText has returned for the empty string.
C7_Witness ==
    wPc = "done" /\ wText = <<>> /\ wSt.calls = <<>> /\ wSt.drawY = wY

\* C8, the loop step: the word is appended to the current line exactly
\* when the candidate measures at most maxWidth or the current line is
\* empty; otherwise the current line is drawn and the word starts the next.
C8_StepIsGreedy ==
    (wPc = "loop" /\ wIdx' = wIdx + 1) =>
        LET word == wWords[wIdx + 1]
            cand == TestLine(wSt.line, word)
            fits == Measure(cand) <= wMaxWidth \/ wSt.line = <<>>
        IN /\ fits => (wSt'.line = cand /\ wSt'.calls = wSt.calls)
           /\ ~fits => /\ wSt'.line = word
                        /\ Len(wSt'.calls) = Len(wSt.calls) + 1
                        /\ wSt'.calls[Len(wSt'.calls)].text = wSt.line

\* C8, the lines: a drawn line of more than one word measures at most
\* maxWidth, and once wrapText has returned, each word wider than maxWidth
\* is a drawn line by itself.
C8_LinesFit ==
    /\ \A i \in 1..Len(wSt.calls) :
          HasSpace(wSt.calls[i].text) => Measure(wSt.calls[i].text) <= wMaxWidth
    /\ wPc = "done" =>
          \A k \in 1..Len(wWords) :
              Measure(wWords[k]) > wMaxWidth =>
                  \E i \in 1..Len(wSt.calls) : wSt.calls[i].text = wWords[k]

\* C8: greedy fit of wrapText (the step and the lines it yields).
C8_GreedyFit == [][C8_StepIsGreedy]_vars /\ []C8_LinesFit

\* wrapText has returned with a too-wide word on a line of its own and
\* another line that holds two words.
C8_Witness ==
    /\ wPc = "done"
    /\ Len(wSt.calls) >= 2
    /\ \E i \in 1..Len(wSt.calls) :
          ~HasSpace(wSt.calls[i].text) /\ Measure(wSt.calls[i].text) > wMaxWidth
    /\ \E i \in 1..Len(wSt.calls) : HasSpace(wSt.calls[i].text)

\* C9: wrapText splits on whitespace: the words of the drawn lines (each
\* line cut at its spaces) are the words of the text split on runs of
\* whitespace, so none is empty and none holds a whitespace character.
C9_SplitsOnWhitespace ==
    wPc = "done" => LineWords(LineTexts) = WsWords(wText)

-----------------------------------------------------------------------------
(* Claims about the image fit, under SpecFit *)

\* The available region: its left, right, top and bottom edges.
RegionLeft == FixOfNat(downloadWidth - padding - availableImageWidth)
RegionRight == FixOfNat(downloadWidth - padding)
RegionTop == FixOfNat(padding)
RegionBottom == FixOfNat(padding + availableImageHeight)

\* a <= b + tol, and |a - b| <= tol
LeqWithin(a, b, tol) == FixLeq(a, AddExact(b, tol))
Near(a, b, tol) == LeqWithin(a, b, tol) /\ LeqWithin(b, a, tol)

\* The fit of an image of positive sides: the scale is at most the cap,
\* and up to `tol` the drawn sides are at most the available sides and the
\* rectangle is inside the region, right-aligned and vertically centred
\* (the space above equals the space below: twice imageY plus the drawn
\* height is the sum of the top and bottom edges).
FitInside(r, tol) ==
    /\ FixLeq(r.scale, ScaleCap)
    /\ LeqWithin(r.drawWidth, FixOfNat(availableImageWidth), tol)
    /\ LeqWithin(r.drawHeight, FixOfNat(availableImageHeight), tol)
    /\ ~r.imageX.neg /\ ~r.imageY.neg
    /\ LeqWithin(RegionLeft, r.imageX.mag, tol)
    /\ LeqWithin(RegionTop, r.imageY.mag, tol)
    /\ LeqWithin(AddExact(r.imageY.mag, r.drawHeight), RegionBottom, tol)
    /\ Near(AddExact(r.imageX.mag, r.drawWidth), RegionRight, tol)
    /\ Near(AddExact(AddExact(r.imageY.mag, r.imageY.mag), r.drawHeight),
            AddExact(RegionTop, RegionBottom), tol)

\* The rounding allowance of the amended claim: 2^-40 of a pixel.
FitTolerance == PowMinus(40)

\* C10 as stated: for positive sides the scale is at most the cap, the drawn
\* sides are at most the available sides, and the rectangle is inside the
\* region, right-aligned and vertically centred, all exactly.
C10_FitExact ==
    (fPc = "done" /\ fW > 0 /\ fH > 0) => FitInside(fRes, FixZero)

\* C10 (amended): for positive sides the scale is at most the cap exactly;
\* the drawn sides are at most the available sides, and the rectangle is
\* inside the region, right-aligned and vertically centred, each up to a
\* rounding error of 2^-40 of a pixel.
C10_FitWithinRounding ==
    (fPc = "done" /\ fW > 0 /\ fH > 0) => FitInside(fRes, FitTolerance)

\* A fit of positive sides whose drawn height exceeds the available height
\* by a rounding error.
C10_Witness ==
    /\ fPc = "done" /\ fW > 0 /\ fH > 0
    /\ FixLess(FixOfNat(availableImageHeight), fRes.drawHeight)
    /\ FitInside(fRes, FitTolerance)

-----------------------------------------------------------------------------
(* Claims about the image, the backdrop and the copy of an export, under     *)
(* Spec                                                                      *)

\* C11: an export whose decoded image has a zero natural width or height
\* places it with zero size, makes no drawImage call, and still reaches the
\* encoding.
C11_ZeroSizeImageSkipped ==
    \A i \in InFlight :
        (runs[i].pc = "encode" /\ (runs[i].img.width = 0 \/ runs[i].img.height = 0)) =>
            /\ LayerCount(runs[i].canvas, "image") = 0
            /\ LayerCount(runs[i].canvas, "encode") = 1

\* A sequence in reverse order.
Reverse(q) == [k \in 1..Len(q) |-> q[Len(q) + 1 - k]]

\* The layers of a CSS background from the bottom up: the first layer of
\* the list is painted on top of the others.
CssBottomUp(layers) == Reverse(layers)

\* What identifies a backdrop layer in both renderings: its kind, its first
\* colour, and for an overlay its centre in hundredths of the sides.
CssLayerKey(l) == <<l.kind, l.stops[1].color, l.at>>

CanvasLayerKey(op) ==
    <<op.style.kind, op.style.stops[1].color,
      IF op.style.kind = "radial"
      THEN <<(op.style.centre[1] * 100) \div downloadWidth,
             (op.style.centre[2] * 100) \div downloadHeight>>
      ELSE <<0, 0>>>>

\* The backdrop fills of an export, in the order they were painted.
BackdropFills(canvas) ==
    SelectSeq(canvas, LAMBDA op : op.layer \in {"backdrop", "overlay"})

CanvasStack(canvas) ==
    [k \in 1..Len(BackdropFills(canvas)) |-> CanvasLayerKey(BackdropFills(canvas)[k])]

CssStack(layers) ==
    [k \in 1..Len(layers) |-> CssLayerKey(CssBottomUp(layers)[k])]

\* The stack the catalog prescribes: the base gradient, then the overlays
\* in list order.
CatalogStack(key) ==
    LET scene == sceneBackgrounds[key]
    IN <<<<"linear", scene.gradientStops[1].color, <<0, 0>>>>>>
       \o [k \in 1..Len(scene.overlays) |->
              <<"radial", scene.overlays[k].color,
                <<scene.overlays[k].x, scene.overlays[k].y>>>>]

\* C12: for an export of a scene, the exported canvas and the preview's
\* layer lists stack the same layers from the bottom up: the base gradient,
\* then the overlays in catalog list order.
C12_SameOverlayStacking ==
    \A i \in InFlight :
        (runs[i].pc = "encode" /\ runs[i].snap.params.backgroundMode = "scene") =>
            LET p == runs[i].snap.params
            IN /\ CanvasStack(runs[i].canvas) = CatalogStack(p.sceneKey)
               /\ CssStack(previewBackground(p)) = CatalogStack(p.sceneKey)
               /\ CssStack(backgroundStyle(p)) = CatalogStack(p.sceneKey)

\* The direction of a CSS gradient line of the given angle, in ten-
\* thousandths, x to the right and y down: (sin a, -cos a). 135deg points
\* along (1, 1); 130deg does not.
CssDirection(angle) ==
    CASE angle = 135 -> <<7071, 7071>>
      [] angle = 130 -> <<7660, 6428>>

\* Two vectors of the lower right quadrant point the same way.
SameDirection(u, v) == u[1] * v[2] = u[2] * v[1]

\* The gradient line of a canvas linear gradient: from its start point to
\* its end point.
CanvasDirection(style) == <<style.to[1] - style.from[1], style.to[2] - style.from[2]>>

\* The linear gradient of a preview: its bottom layer.
CssGradient(layers) == CssBottomUp(layers)[1]

\* C13: in Gradient and Scene mode the linear gradient of an export and
\* that of the preview have the same direction, the direction (1, 1), and
\* the same stops in the same order.
C13_SameGradientDirection ==
    \A i \in InFlight :
        (runs[i].pc = "encode" /\ runs[i].snap.params.backgroundMode # "solid") =>
            LET p == runs[i].snap.params
                g == runs[i].canvas[1].style
                css == CssGradient(previewBackground(p))
            IN /\ g.kind = "linear" /\ css.kind = "linear"
               /\ g.stops = css.stops
               /\ SameDirection(CanvasDirection(g), CssDirection(css.angle))
               /\ SameDirection(CanvasDirection(g), <<1, 1>>)
               /\ CssGradient(backgroundStyle(p)) = css

\* The calls of one layer of an export, in order.
LayerOps(canvas, layer) == SelectSeq(canvas, LAMBDA op : op.layer = layer)

\* The cursor of an export as its calls show it: below the badge, below
\* the headline and below the description, counting the lines drawn.
StackAfterBadge(p) == IF p.badgeText = <<>> THEN padding + 20 ELSE padding + 20 + 58 + 48

StackAfterHeadline(p, canvas) ==
    IF p.tagline = <<>> THEN StackAfterBadge(p)
    ELSE StackAfterBadge(p) + Len(LayerOps(canvas, "headline")) * 84 + 36

StackAfterDescription(p, canvas) ==
    IF p.description = <<>> THEN StackAfterHeadline(p, canvas)
    ELSE StackAfterHeadline(p, canvas) + Len(LayerOps(canvas, "description")) * 46 + 40

\* C14: in an export the badge starts at padding + 20 and is 58 high; the
\* headline lines start at the cursor below the badge (58 + 48 further down
\* if there is a badge), 84 apart; the description lines start at the
\* cursor below the headline (lines x 84 + 36 further down if the headline
\* is not empty), 46 apart; the CTA starts at the cursor below the
\* description (lines x 46 + 40 further down if it is not empty); an empty
\* field leaves the cursor where it is, and the cursor never decreases.
C14_CopyBlocksStack ==
    \A i \in InFlight :
        runs[i].pc = "encode" =>
            LET c == runs[i].canvas
                p == runs[i].snap.params
                b == LayerOps(c, "badge")
                h == LayerOps(c, "headline")
                d == LayerOps(c, "description")
                t == LayerOps(c, "cta")
            IN /\ p.badgeText # <<>> => (b[1].rect[2] = padding + 20 /\ b[1].rect[4] = 58)
               /\ \A k \in 1..Len(h) : h[k].y = StackAfterBadge(p) + (k - 1) * 84
               /\ \A k \in 1..Len(d) : d[k].y = StackAfterHeadline(p, c) + (k - 1) * 46
               /\ p.ctaText # <<>> => t[1].rect[2] = StackAfterDescription(p, c)
               /\ padding + 20 <= StackAfterBadge(p)
               /\ StackAfterBadge(p) <= StackAfterHeadline(p, c)
               /\ StackAfterHeadline(p, c) <= StackAfterDescription(p, c)

\* An export has drawn a badge, a headline of several lines, a description
\* of several lines and the CTA below them.
C14_Witness ==
    \E i \in InFlight :
        /\ runs[i].pc = "encode"
        /\ runs[i].snap.params.badgeText # <<>>
        /\ Len(LayerOps(runs[i].canvas, "headline")) >= 2
        /\ Len(LayerOps(runs[i].canvas, "description")) >= 2
        /\ Len(LayerOps(runs[i].canvas, "cta")) = 2
        /\ LayerOps(runs[i].canvas, "cta")[1].rect[2] =
              padding + 20 + 58 + 48
              + Len(LayerOps(runs[i].canvas, "headline")) * 84 + 36
              + Len(LayerOps(runs[i].canvas, "description")) * 46 + 40

\* C15: when every awaited operation settles, an export that has set the
\* exporting flag sets it back to false, and the flag is never set while no
\* export is in flight.
C15_ExportingCleared ==
    /\ exporting ~> ~exporting
    /\ [](InFlight = {} => ~exporting)

\* An export has set the flag, has failed at the decode, and has cleared
\* the flag.
C15_Witness ==
    /\ lastExport.ended /\ ~lastExport.decoded
    /\ InFlight = {} /\ ~exporting
    /\ downloadError = "Failed to export image."

\* C16: the object URL an export in flight has yet to load is not revoked,
\* and an export whose image load fails was given a file that does not
\* decode: no export fails because another image was selected.
C16_DecodedUrlNotRevoked ==
    \A i \in InFlight :
        /\ runs[i].pc = "fonts" => ~urls[runs[i].snap.imageSrc].revoked
        /\ (runs[i].pc = "decode" /\ runs[i].fetch = "error") =>
              ~urls[runs[i].snap.imageSrc].file.decodable

====
